---- MODULE Spec2Model ----
(***************************************************************************)
(* Alert throttling engine of the HomGar poller: HomgarApi.init_sensor and *)
(* HomgarApi.is_max_temperature (src/api.py) and the poll cycle run()      *)
(* (src/function_app.py), over the Redis cache and the PostgreSQL tables   *)
(* device and history; the session manager (login, ensure_logged_in), the  *)
(* device tree builder (get_devices_for_hid) and the status dispatcher     *)
(* (get_device_status).                                                    *)
(*                                                                         *)
(* Spec is the alert engine of a logged-in process; SpecSession the        *)
(* session manager, SpecCycle the poll cycle of two homes in which calls   *)
(* fail, SpecTree the tree builder and SpecStatus the status dispatcher.   *)
(*                                                                         *)
(* Time is an integer number of ticks; a formatted timestamp               *)
(* ('%Y-%m-%d %H:%M:%S') is an integer number of whole seconds.            *)
(* Temperatures are milli-Kelvin (raw) and milli-degrees Celsius.          *)
(* An optional value is the empty set (Python None, SQL NULL, a missing    *)
(* key or row) or a singleton set.                                         *)
(* alert_temp_max and alert_frequency are whole numbers, on which the      *)
(* int() of lines 305 and 315 changes nothing; the UTC offset of           *)
(* Europe/Paris is constant over the modelled span.                        *)
(***************************************************************************)
EXTENDS Integers, Sequences, FiniteSets, TLC

VARIABLES
    now,      \* the wall clock, in ticks
    cache,    \* Redis: cache[d] is the value of key "<did>_alert_next_check"
    db,       \* PostgreSQL table device: db[d] is the row with did = d
    history,  \* PostgreSQL table history, in insertion order
    tree,     \* the sensor objects of the device tree a caller of the API holds
    evals,    \* what the is_max_temperature calls of the last operation did
    cred,     \* Redis: the keys email, token, token_expires and refresh_token
    sess,     \* what the ensure_logged_in or login of the last operation did
    calls,    \* the authenticated requests of the last poll cycle, or of the
              \* callers of the API since, in order
    listing,  \* what the vendor lists for a home (getDeviceByHid)
    hubs,     \* the hubs get_devices_for_hid returned to a caller, if it was called
    applied,  \* what the get_device_status of the last operation did
    device_rows  \* device_rows[d] is the number of rows of table device with
                 \* did = d: the INSERTs made, no statement deleting any

vars == <<now, cache, db, history, tree, evals, cred, sess, calls,
          listing, hubs, applied, device_rows>>

-----------------------------------------------------------------------------
(* Bounds of the model *)

TicksPerSec == 2     \* clock ticks per second (datetime has microseconds)
MaxNow == 3          \* the clock stops here
MaxHistory == 2      \* rows of table history before the model stops evaluating

\* ticks per hour: the hour is scaled down to one second
HourTicks == TicksPerSec

Dids == {2}                      \* device ids of the temperature sensors
Order == <<2>>                   \* hub.subdevices, in vendor-reported order
Readings == {307149, 307150}     \* temp_mk_current: 33.999 C and 34.000 C

\* the settings an operator gives a stored device:
\* alert_temp_max (degrees Celsius), alert_frequency (hours), alert_enabled
Settings ==
    { <<33, 0, TRUE>>, <<34, -1, TRUE>>, <<34, 1, FALSE>> }

None == {}
Some(v) == {v}
Val(s) == CHOOSE x \in s : TRUE

-----------------------------------------------------------------------------
(* Conversions *)

\* datetime.strftime('%Y-%m-%d %H:%M:%S'): the sub-second part is dropped
Strftime(t) == t \div TicksPerSec

\* timezone.localize(datetime.strptime(s, '%Y-%m-%d %H:%M:%S'))
Strptime(s) == s * TicksPerSec

\* timedelta(hours=int(alert_frequency))
Hours(h) == h * HourTicks

KelvinOffsetMilli == 273150

\* temp_mk_current * 1e-3 - 273.15, kept in milli-degrees
Celsius(mk) == mk - KelvinOffsetMilli

\* the comparison made strict
OverThreshold_Strict(mk, tmax) == Celsius(mk) > 1000 * tmax

\* curr_temp >= alert_temp_max
OverThreshold(mk, tmax) == Celsius(mk) >= 1000 * tmax

\* the comparison made inclusive
Eligible_AtOrAfter(t, next) == next = None \/ t >= Strptime(Val(next))

\* alert_next_check is None or current_time > parsed alert_next_check
Eligible(t, next) == next = None \/ t > Strptime(Val(next))

\* the device.alert_next_check column as init_sensor's SELECT hands it to
\* is_max_temperature, which parses it with '%Y-%m-%d %H:%M:%S'
DbText(v) == IF v = None THEN None ELSE Some(Strftime(Val(v)))

-----------------------------------------------------------------------------
(* Sensor objects *)

\* defaults a freshly constructed TemperatureAirSensor carries
DefaultTempMax == 34
DefaultFrequency == 1
DefaultEnabled == TRUE

\* subdevice_class(**device_base_props(subdevice_data)): a fresh object with
\* the default Alert State and no reading yet
NewSensor(d) ==
    [ did              |-> d,
      temp_mk_current  |-> None,
      alert_temp_max   |-> DefaultTempMax,
      alert_frequency  |-> DefaultFrequency,
      alert_enabled    |-> DefaultEnabled,
      alert_next_check |-> None,
      alert_last_check |-> None,
      alert_temp_curr  |-> None ]

\* device.set_device_status(subdevice_status) for a temperature sensor
SetStatus(obj, mk) == [obj EXCEPT !.temp_mk_current = mk]

-----------------------------------------------------------------------------
(* HomgarApi.init_sensor *)

\* the row exists: the object takes its four columns
LoadRow(obj, row) ==
    [obj EXCEPT !.alert_temp_max   = row.alert_temp_max,
                !.alert_frequency  = row.alert_frequency,
                !.alert_enabled    = row.alert_enabled,
                !.alert_next_check = DbText(row.alert_next_check)]

\* no row: one is inserted from the object's (default) fields
RowOf(obj) ==
    [ alert_temp_max   |-> obj.alert_temp_max,
      alert_frequency  |-> obj.alert_frequency,
      alert_enabled    |-> obj.alert_enabled,
      alert_next_check |-> IF obj.alert_next_check = None THEN None
                           ELSE Some(Strptime(Val(obj.alert_next_check))) ]

\* a row is written from the object whether or not one exists
init_sensor_Upsert(obj, d) ==
    [obj |-> obj, db |-> [d EXCEPT ![obj.did] = Some(RowOf(obj))], inserted |-> TRUE]

\* the object and the table device after init_sensor(obj) on the table d,
\* and whether the INSERT of lines 251-266 was executed
init_sensor(obj, d) ==
    IF d[obj.did] # None
    THEN [obj |-> LoadRow(obj, Val(d[obj.did])), db |-> d, inserted |-> FALSE]
    ELSE [obj |-> obj, db |-> [d EXCEPT ![obj.did] = Some(RowOf(obj))],
          inserted |-> TRUE]

-----------------------------------------------------------------------------
(* HomgarApi.is_max_temperature *)

\* UPDATE device SET alert_next_check = time_next WHERE did = ...; commit
UpdateNextCheck(d, did, time_next) ==
    IF d[did] = None THEN d
    ELSE [d EXCEPT ![did] = Some([Val(d[did]) EXCEPT !.alert_next_check = Some(time_next)])]

\* the row INSERTed INTO history
HistoryRow(obj, t, triggered) ==
    [ did            |-> obj.did,
      timestamp      |-> t,
      temperature    |-> Celsius(Val(obj.temp_mk_current)),
      alert_triggered |-> triggered,
      alert_temp_max |-> obj.alert_temp_max ]

\* alert_triggered as the history row records it (line 309)
Triggered(over, fires) == over

\* the sign of the cooldown dropped
TimeNext_AbsCooldown(t, freq) == t + Hours(IF freq < 0 THEN -freq ELSE freq)

\* the default cooldown taken instead of the sensor's
TimeNext_DefaultCooldown(t, freq) == t + Hours(DefaultFrequency)

\* time_next = current_time_in_fra + timedelta(hours=int(alert_frequency))
TimeNext(t, freq) == t + Hours(freq)

\* what can go wrong inside a call: nothing, reading template_email.html for
\* the notification (line 331), or the INSERT INTO history (line 353)
Failures == {"no", "notify", "history"}

\* the newest row overwritten instead of a row appended
InsertHistory_Replace(h, row) ==
    IF h = <<>> THEN <<row>> ELSE [h EXCEPT ![Len(h)] = row]

\* cursor.execute(insert_query, ...); conn.commit()
InsertHistory(h, row) == Append(h, row)

\* The whole call at time t on object obj with cache c, table device d and
\* table history h, where fail is the step that throws: the object, the
\* stores, the branch taken (outcome), the exception that left the call
\* (error: "reading" when temp_mk_current is None and line 294 throws) and
\* the ordered effects.
is_max_temperature(obj, t, c, d, h, fail) ==
    LET o1 == [obj EXCEPT !.alert_last_check = Some(Strftime(t))]
    IN
    IF obj.temp_mk_current = None
    THEN [obj |-> o1, cache |-> c, db |-> d, history |-> h,
          outcome |-> "raised", error |-> "reading",
          effects |-> <<"set_last_check">>]
    ELSE
    LET o2    == [o1 EXCEPT !.alert_temp_curr = Some(Celsius(Val(obj.temp_mk_current)))]
        over  == OverThreshold(Val(obj.temp_mk_current), obj.alert_temp_max)
        fires == over /\ Eligible(t, obj.alert_next_check)
        tn    == TimeNext(t, obj.alert_frequency)
        row   == HistoryRow(o2, t, Triggered(over, fires))
        \* the INSERT INTO history that ends every branch of an enabled sensor
        h2    == IF fail = "history" THEN h ELSE InsertHistory(h, row)
        herr  == IF fail = "history" THEN "history" ELSE "no"
        hfx   == IF fail = "history" THEN <<>> ELSE <<"history">>
    IN
    IF obj.alert_enabled # TRUE
    THEN [obj |-> o2, cache |-> c, db |-> d, history |-> h,
          outcome |-> "none", error |-> "no",
          effects |-> <<"set_last_check", "set_temp_curr">>]
    ELSE IF ~over
    THEN [obj |-> o2, cache |-> c, db |-> d, history |-> h2,
          outcome |-> "none", error |-> herr,
          effects |-> <<"set_last_check", "set_temp_curr">> \o hfx]
    ELSE IF fires
    THEN IF fail = "notify"
         THEN [obj |-> o2,
               cache |-> [c EXCEPT ![obj.did] = Some(Strftime(tn))],
               db |-> UpdateNextCheck(d, obj.did, tn),
               history |-> h,
               outcome |-> "fired", error |-> "notify",
               effects |-> <<"set_last_check", "set_temp_curr",
                             "cache_next_check", "db_next_check">>]
         ELSE [obj |-> o2,
               cache |-> [c EXCEPT ![obj.did] = Some(Strftime(tn))],
               db |-> UpdateNextCheck(d, obj.did, tn),
               history |-> h2,
               outcome |-> "fired", error |-> herr,
               effects |-> <<"set_last_check", "set_temp_curr", "cache_next_check",
                             "db_next_check", "notify">> \o hfx]
    ELSE [obj |-> o2, cache |-> c, db |-> d, history |-> h2,
          outcome |-> "suppressed", error |-> herr,
          effects |-> <<"set_last_check", "set_temp_curr">> \o hfx]

\* what one call is observed to have done
Observation(via, obj, t, c, d, h, r) ==
    [ did      |-> obj.did,
      via      |-> via,
      at       |-> t,
      pre      |-> obj,
      post     |-> r.obj,
      outcome  |-> r.outcome,
      error    |-> r.error,
      effects  |-> r.effects,
      cache_before |-> c[obj.did],
      cache_after  |-> r.cache[obj.did],
      row_before   |-> d[obj.did],
      row_after    |-> r.db[obj.did],
      history_before |-> h,
      history_after  |-> r.history,
      logged   |-> IF Len(r.history) > Len(h) THEN Some(r.history[Len(r.history)]) ELSE None ]

-----------------------------------------------------------------------------
(* HomgarApi.login and HomgarApi.ensure_logged_in *)

Emails == {"a", "b"}             \* account identities
Tokens == {1, 2}                 \* tokens the vendor issues
\* tokenExpired of a login response: 30, 60 and 120 minutes
Ttls == {HourTicks \div 2, HourTicks, 2 * HourTicks}

\* the JSON of a login response: a non-zero code, or code 0 with data that
\* carries token, refreshToken (issued together, one value standing for
\* both) and, unless the payload is malformed, tokenExpired
LoginResponses ==
    {[code |-> 1, token |-> None, tokenExpired |-> None]}
    \cup [code : {0}, token : {Some(k) : k \in Tokens},
          tokenExpired : {None} \cup {Some(x) : x \in Ttls}]

NoCredential ==
    [email |-> None, token |-> None, token_expires |-> None, refresh_token |-> None]

\* login(email, password) at time t against a vendor answering resp:
\* _request_json raises on a non-zero code (line 90-93); the four set_cache
\* calls follow one another (lines 126-129), and the third raises TypeError
\* when data.get('tokenExpired') is None
login(cr, email, resp, t) ==
    IF resp.code # 0
    THEN [cred |-> cr, error |-> "auth"]
    ELSE LET c1 == [cr EXCEPT !.email = Some(email)]
             c2 == [c1 EXCEPT !.token = resp.token]
         IN IF resp.tokenExpired = None
            THEN [cred |-> c2, error |-> "payload"]
            ELSE [cred |-> [c2 EXCEPT !.token_expires = Some(t + Val(resp.tokenExpired)),
                                      !.refresh_token = resp.token],
                  error |-> "no"]

\* the test of lines 222-223: `or` does not evaluate float(token_expires)
\* when the e-mail differs; float(None) raises TypeError
ensure_logged_in(cr, email, resp, t) ==
    LET l == login(cr, email, resp, t)
    IN IF cr.email # Some(email)
       THEN [cred |-> l.cred, error |-> l.error, exchanged |-> TRUE]
       ELSE IF cr.token_expires = None
       THEN [cred |-> cr, error |-> "type", exchanged |-> FALSE]
       ELSE IF Val(cr.token_expires) - t < Hours(1)
       THEN [cred |-> l.cred, error |-> l.error, exchanged |-> TRUE]
       ELSE [cred |-> cr, error |-> "no", exchanged |-> FALSE]

\* what one call of the session manager is observed to have done; resp is
\* the vendor's answer when the login exchange took place
SessionObservation(op, cr, email, resp, t, r) ==
    [ op |-> op, email |-> email, at |-> t,
      resp |-> IF r.exchanged THEN Some(resp) ELSE None,
      pre |-> cr, post |-> r.cred, error |-> r.error, exchanged |-> r.exchanged ]

-----------------------------------------------------------------------------
(* HomgarApi.get_devices_for_hid and HomgarApi.get_device_status *)

MaxSubs == 2         \* sub-device entries of one hub entry

\* devices.MODEL_CODE_MAPPING: model code 10 is a hub variant, 20 the
\* temperature sensor; 99 stands for every code outside the mapping
MODEL_CODE_MAPPING == [c \in {10, 20} |-> IF c = 10 THEN "hub" ELSE "TemperatureAirSensor"]
\* devices.HomgarHubDevice, the class of a hub of unmapped model code
HomgarHubDevice == "HomgarHubDevice"

\* the entries of 'subDevices' a vendor reports: did, modelCode and addr
\* (the display of the hub itself has did 1)
SubEntries ==
    { [did |-> 1, modelCode |-> 99, addr |-> 1],
      [did |-> 1, modelCode |-> 20, addr |-> 1],
      [did |-> 2, modelCode |-> 20, addr |-> 1],
      [did |-> 2, modelCode |-> 99, addr |-> 2],
      [did |-> 3, modelCode |-> 20, addr |-> 2] }
SubLists == UNION {[1..n -> SubEntries] : n \in 0..MaxSubs}
HubEntries == [modelCode : {10, 99}, subDevices : SubLists]
\* the listings of a home with at most two hubs
Listings ==
    {<<>>} \cup {<<a>> : a \in HubEntries} \cup {<<a, b>> : a \in HubEntries, b \in HubEntries}

\* no entry is taken for the hub itself
IsHubItself_Never(did) == FALSE

\* did == 1: the entry is the hub itself (line 178)
IsHubItself(did) == did = 1

\* the object subdevice_class(**device_base_props(subdevice_data)) builds:
\* of device_base_props, did, model_code and address are kept; status is
\* what set_device_status last stored (nothing yet)
NewSubDevice(e) ==
    [ class |-> MODEL_CODE_MAPPING[e.modelCode], did |-> e.did,
      model_code |-> e.modelCode, address |-> e.addr, status |-> None ]

RECURSIVE SubdevicesFrom(_, _)
\* the loop of lines 176-184 from position i on
SubdevicesFrom(subs, i) ==
    IF i > Len(subs) THEN <<>>
    ELSE IF IsHubItself(subs[i].did) THEN SubdevicesFrom(subs, i + 1)
    ELSE IF subs[i].modelCode \notin DOMAIN MODEL_CODE_MAPPING
    THEN SubdevicesFrom(subs, i + 1)
    ELSE <<NewSubDevice(subs[i])>> \o SubdevicesFrom(subs, i + 1)

\* hub_class(**device_base_props(hub_data), subdevices=subdevices)
NewHub(hub_data) ==
    [ class |-> IF hub_data.modelCode \in DOMAIN MODEL_CODE_MAPPING
                THEN MODEL_CODE_MAPPING[hub_data.modelCode]
                ELSE HomgarHubDevice,
      model_code |-> hub_data.modelCode,
      status |-> None,
      subdevices |-> SubdevicesFrom(hub_data.subDevices, 1) ]

\* one hub per entry of data, in order
get_devices_for_hid(data) == [i \in DOMAIN data |-> NewHub(data[i])]

\* device.get_device_status_ids(): a hub answers to the status id of its
\* own display, a sub-device to the status id of its address
HubStatusId == 1
get_device_status_ids(dev) ==
    IF "subdevices" \in DOMAIN dev THEN {HubStatusId} ELSE {dev.address}

\* ids and values of the records of data['subDeviceStatus']; a record
\* without the key 'id' has id None
StatusIds == {1, 2, 3}
StatusRecords == [id : {None} \cup {Some(i) : i \in StatusIds}, value : Readings]
\* the payloads of at most two records
StatusPayloadsOf ==
    {<<>>} \cup {<<a>> : a \in StatusRecords}
    \cup {<<a, b>> : a \in StatusRecords, b \in StatusRecords}

\* [hub, *hub.subdevices]: position 0 is the hub, position k its k-th child
DeviceAt(hub, k) == IF k = 0 THEN hub ELSE hub.subdevices[k]
Answering(hub, id) ==
    {k \in 0..Len(hub.subdevices) : id \in get_device_status_ids(DeviceAt(hub, k))}

\* id_map.get(id): the dict comprehension of line 204 keeps, for an id,
\* the last device of [hub, *hub.subdevices] that answers to it
IdMapGet(hub, id) ==
    LET ks == Answering(hub, id)
    IN IF ks = {} THEN None ELSE Some(CHOOSE k \in ks : \A j \in ks : j <= k)

\* device.set_device_status(subdevice_status) on the device at position k
set_device_status(hub, k, rec) ==
    IF k = 0 THEN [hub EXCEPT !.status = Some(rec.value)]
    ELSE [hub EXCEPT !.subdevices[k].status = Some(rec.value)]

RECURSIVE StatusFrom(_, _, _, _)
\* the loop of lines 206-209 from record i on; touched[i] is the set of
\* positions set_device_status was called on for record i; the subscript
\* subdevice_status['id'] of line 207 raises KeyError on a record without
\* that key, which ends the loop and the call
StatusFrom(hub, recs, i, touched) ==
    IF i > Len(recs) THEN [hub |-> hub, touched |-> touched, error |-> "no"]
    ELSE IF recs[i].id = None
    THEN [hub |-> hub, touched |-> touched, error |-> "key"]
    ELSE LET device == IdMapGet(hub, Val(recs[i].id))
         IN IF device # None
            THEN StatusFrom(set_device_status(hub, Val(device), recs[i]), recs, i + 1,
                            Append(touched, device))
            ELSE StatusFrom(hub, recs, i + 1, Append(touched, None))

\* get_device_status(hub) against a vendor answering recs
get_device_status(hub, recs) == StatusFrom(hub, recs, 1, <<>>)

-----------------------------------------------------------------------------
(* run(): one poll cycle *)

\* the identity of config['api-homegar']['email']
ConfigEmail == "a"

Homes == <<1>>                   \* get_homes of an account with one home
CycleHomes == <<1, 2>>           \* get_homes of an account with two homes
CycleDids == {2, 3}              \* the sensors of the two homes
\* each home has one hub, whose mid is taken equal to the hid; home 1 holds
\* the sensors of Order, home 2 the sensor 3
SensorsOf(hid) == IF hid = 1 THEN Order ELSE <<3>>

\* the authenticated vendor calls
VendorCall(name, id) == [call |-> name, id |-> id]
\* which vendor call answers with a non-zero code (or is unreachable), if any
VendorFailures ==
    {VendorCall("none", 0), VendorCall("get_homes", 0)}
    \cup {VendorCall(n, CycleHomes[j]) :
            n \in {"get_devices_for_hid", "get_device_status"}, j \in DOMAIN CycleHomes}

\* the token the vendor issued first is sent, whatever the cache holds
AuthHeader_Stale(cr) == IF cr.token = None THEN None ELSE Some(1)

\* headers["auth"] = self.get_cache("token"): the key is read when the
\* request is made (line 76)
AuthHeader(cr) == cr.token

\* _request(..., with_auth=True) for the vendor call c while the
\* credential keys of the cache are cr: the request as sent
request(cr, c) == [call |-> c.call, id |-> c.id, auth |-> AuthHeader(cr)]

\* every exception is swallowed and the statements that follow still run
Proceeds_Regardless(error) == TRUE

\* a statement inside the try block of run(): the block goes on when the
\* statement returns; an exception leaves it for the handler of line 96
Proceeds(error) == error = "no"

RECURSIVE RunFrom(_, _, _, _, _, _, _, _, _)
\* the loop over hub.subdevices from position i on, where fl[d] is what goes
\* wrong in the evaluation of d; an exception ends the cycle
RunFrom(subs, i, rd, fl, t, c, d, h, ev) ==
    IF i > Len(subs)
    THEN [cache |-> c, db |-> d, history |-> h, evals |-> ev, error |-> "no"]
    ELSE LET obj == SetStatus(NewSensor(subs[i]), rd[subs[i]])
             r   == is_max_temperature(obj, t, c, d, h, fl[subs[i]])
             ev2 == Append(ev, Observation("run", obj, t, c, d, h, r))
         IN IF ~Proceeds(r.error)
            THEN [cache |-> r.cache, db |-> r.db, history |-> r.history,
                  evals |-> ev2, error |-> r.error]
            ELSE RunFrom(subs, i + 1, rd, fl, t, r.cache, r.db, r.history, ev2)

RECURSIVE RunHomes(_, _, _, _, _, _, _, _, _, _, _, _)
\* the loop over homes from position j on (lines 71-94): get_devices_for_hid
\* builds the tree afresh, get_device_status applies the reported readings
\* rd, then every sub-device is evaluated in order; vf is the vendor call
\* that fails, cl the requests made so far, cr the credential keys of the
\* cache
RunHomes(hs, j, vf, rd, fl, t, cr, c, d, h, ev, cl) ==
    IF j > Len(hs)
    THEN [cache |-> c, db |-> d, history |-> h, evals |-> ev, calls |-> cl, error |-> "no"]
    ELSE LET devs   == VendorCall("get_devices_for_hid", hs[j])
             status == VendorCall("get_device_status", hs[j])
             cl1 == Append(cl, request(cr, devs))
             cl2 == Append(cl1, request(cr, status))
             r   == RunFrom(SensorsOf(hs[j]), 1, rd, fl, t, c, d, h, ev)
         IN IF ~Proceeds(IF vf = devs THEN "vendor" ELSE "no")
            THEN [cache |-> c, db |-> d, history |-> h, evals |-> ev,
                  calls |-> cl1, error |-> "vendor"]
            ELSE IF ~Proceeds(IF vf = status THEN "vendor" ELSE "no")
            THEN [cache |-> c, db |-> d, history |-> h, evals |-> ev,
                  calls |-> cl2, error |-> "vendor"]
            ELSE IF ~Proceeds(r.error)
            THEN [cache |-> r.cache, db |-> r.db, history |-> r.history,
                  evals |-> r.evals, calls |-> cl2, error |-> r.error]
            ELSE RunHomes(hs, j + 1, vf, rd, fl, t, cr, r.cache, r.db, r.history,
                          r.evals, cl2)

\* run() at time t: ensure_logged_in against a vendor answering resp to a
\* login, get_homes answering hs, then the loop over the homes; one handler
\* (line 96) catches whatever any statement raises and the cycle ends there
run(resp, hs, vf, rd, fl, t, cr, c, d, h) ==
    LET s    == ensure_logged_in(cr, ConfigEmail, resp, t)
        so   == Some(SessionObservation("ensure", cr, ConfigEmail, resp, t, s))
        list == VendorCall("get_homes", 0)
        r    == RunHomes(hs, 1, vf, rd, fl, t, s.cred, c, d, h, <<>>,
                         <<request(s.cred, list)>>)
    IN IF ~Proceeds(s.error)
       THEN [cred |-> s.cred, sess |-> so, cache |-> c, db |-> d, history |-> h,
             evals |-> <<>>, calls |-> <<>>, error |-> s.error]
       ELSE IF ~Proceeds(IF vf = list THEN "vendor" ELSE "no")
       THEN [cred |-> s.cred, sess |-> so, cache |-> c, db |-> d, history |-> h,
             evals |-> <<>>, calls |-> <<request(s.cred, list)>>, error |-> "vendor"]
       ELSE [cred |-> s.cred, sess |-> so, cache |-> r.cache, db |-> r.db,
             history |-> r.history, evals |-> r.evals, calls |-> r.calls,
             error |-> r.error]

-----------------------------------------------------------------------------
(* State machine *)

\* a status payload: the reading of every sensor it reports
StatusPayloads == [Dids -> {None} \cup {Some(mk) : mk \in Readings}]

\* a credential cached by an earlier login that stays valid over the whole
\* modelled span
LoggedIn ==
    [email |-> Some(ConfigEmail), token |-> Some(1),
     token_expires |-> Some(MaxNow + HourTicks), refresh_token |-> Some(1)]
\* the login response of an available vendor
LoginOk == [code |-> 0, token |-> Some(1), tokenExpired |-> Some(2 * HourTicks)]

\* a process that is logged in, with empty stores
Init ==
    /\ now = 0
    /\ cache = [d \in Dids |-> None]
    /\ db = [d \in Dids |-> None]
    /\ history = <<>>
    /\ tree = [d \in Dids |-> None]
    /\ evals = <<>>
    /\ cred = LoggedIn
    /\ sess = None
    /\ calls = <<>>
    /\ listing = <<>>
    /\ hubs = None
    /\ applied = None
    /\ device_rows = [d \in Dids |-> 0]

\* time passes
Tick ==
    /\ now < MaxNow
    /\ now' = now + 1
    /\ evals' = <<>>
    /\ sess' = None /\ calls' = <<>> /\ applied' = None
    /\ UNCHANGED <<cache, db, history, tree, cred, listing, hubs, device_rows>>

\* the scheduled poll cycle of an account with one home, the vendor, every
\* store and the template file being available
RunCycle ==
    /\ Len(history) + Len(Order) <= MaxHistory
    /\ \E rd \in StatusPayloads :
         \E r \in {run(LoginOk, Homes, VendorCall("none", 0), rd,
                      [d \in Dids |-> "no"], now, cred, cache, db, history)} :
            /\ cred' = r.cred
            /\ sess' = r.sess
            /\ cache' = r.cache
            /\ db' = r.db
            /\ history' = r.history
            /\ evals' = r.evals
            /\ calls' = r.calls
    /\ applied' = None
    /\ UNCHANGED <<now, tree, listing, hubs, device_rows>>

\* a caller of the API builds a device tree and fetches its status:
\* get_devices_for_hid, then get_device_status
GetDevices ==
    /\ \E rd \in StatusPayloads :
         tree' = [d \in Dids |-> Some(SetStatus(NewSensor(d), rd[d]))]
    /\ evals' = <<>>
    /\ sess' = None /\ calls' = <<>> /\ applied' = None
    /\ UNCHANGED <<now, cache, db, history, cred, listing, hubs, device_rows>>

\* a caller of the API calls init_sensor on a sensor of its tree
InitSensor ==
    /\ \E d \in Dids :
         /\ tree[d] # None
         /\ \E r \in {init_sensor(Val(tree[d]), db)} :
               /\ tree' = [tree EXCEPT ![d] = Some(r.obj)]
               /\ db' = r.db
               /\ device_rows' = [device_rows EXCEPT
                                    ![d] = IF r.inserted THEN @ + 1 ELSE @]
    /\ evals' = <<>>
    /\ sess' = None /\ calls' = <<>> /\ applied' = None
    /\ UNCHANGED <<now, cache, history, cred, listing, hubs>>

\* a caller of the API calls is_max_temperature on a sensor of its tree,
\* every store and file being available
IsMaxTemperature ==
    /\ Len(history) < MaxHistory
    /\ \E d \in Dids :
         /\ tree[d] # None
         /\ \E obj \in tree[d] :
            \E r \in {is_max_temperature(obj, now, cache, db, history, "no")} :
               /\ tree' = [tree EXCEPT ![d] = Some(r.obj)]
               /\ cache' = r.cache
               /\ db' = r.db
               /\ history' = r.history
               /\ evals' = <<Observation("api", obj, now, cache, db, history, r)>>
    /\ sess' = None /\ calls' = <<>> /\ applied' = None
    /\ UNCHANGED <<now, cred, listing, hubs, device_rows>>

\* the operator of the installation edits the settings of a stored device
Configure ==
    /\ \E d \in Dids, s \in Settings :
         /\ db[d] # None
         /\ db' = [db EXCEPT ![d] = Some([Val(db[d]) EXCEPT !.alert_temp_max = s[1],
                                                          !.alert_frequency = s[2],
                                                          !.alert_enabled = s[3]])]
    /\ evals' = <<>>
    /\ sess' = None /\ calls' = <<>> /\ applied' = None
    /\ UNCHANGED <<now, cache, history, tree, cred, listing, hubs, device_rows>>

Next ==
    \/ Tick
    \/ RunCycle
    \/ GetDevices
    \/ InitSensor
    \/ IsMaxTemperature
    \/ Configure

Spec == Init /\ [][Next]_vars

-----------------------------------------------------------------------------
(* The session manager on its own *)

\* a caller of the API logs in
Login ==
    /\ \E email \in Emails, resp \in LoginResponses :
         \E l \in {login(cred, email, resp, now)} :
         \E r \in {[cred |-> l.cred, error |-> l.error, exchanged |-> TRUE]} :
            /\ cred' = r.cred
            /\ sess' = Some(SessionObservation("login", cred, email, resp, now, r))
    /\ evals' = <<>> /\ applied' = None
    /\ UNCHANGED <<now, cache, db, history, tree, calls, listing, hubs, device_rows>>

\* a caller of the API makes sure it is logged in
EnsureLoggedIn ==
    /\ \E email \in Emails, resp \in LoginResponses :
         \E r \in {ensure_logged_in(cred, email, resp, now)} :
            /\ cred' = r.cred
            /\ sess' = Some(SessionObservation("ensure", cred, email, resp, now, r))
    /\ evals' = <<>> /\ applied' = None
    /\ UNCHANGED <<now, cache, db, history, tree, calls, listing, hubs, device_rows>>

NextSession ==
    \/ Tick
    \/ Login
    \/ EnsureLoggedIn

\* a process that has never logged in
InitSession ==
    /\ now = 0
    /\ cache = [d \in Dids |-> None]
    /\ db = [d \in Dids |-> None]
    /\ history = <<>>
    /\ tree = [d \in Dids |-> None]
    /\ evals = <<>>
    /\ cred = NoCredential
    /\ sess = None
    /\ calls = <<>>
    /\ listing = <<>>
    /\ hubs = None
    /\ applied = None
    /\ device_rows = [d \in Dids |-> 0]

SpecSession == InitSession /\ [][NextSession]_vars

-----------------------------------------------------------------------------
(* Authenticated requests between logins *)

MaxCalls == 2        \* authenticated requests a caller of the API makes

\* the authenticated calls of the API
AuthenticatedCalls ==
    { VendorCall("get_homes", 0), VendorCall("get_devices_for_hid", 1),
      VendorCall("get_device_status", 1) }

\* a caller of the API makes an authenticated call: get_homes,
\* get_devices_for_hid or get_device_status sends its request
AuthenticatedRequest ==
    /\ Len(calls) < MaxCalls
    /\ \E c \in AuthenticatedCalls : calls' = Append(calls, request(cred, c))
    /\ evals' = <<>> /\ sess' = None /\ applied' = None
    /\ UNCHANGED <<now, cache, db, history, tree, cred, listing, hubs, device_rows>>

NextRequests ==
    \/ Login
    \/ AuthenticatedRequest

SpecRequests == InitSession /\ [][NextRequests]_vars

-----------------------------------------------------------------------------
(* The poll cycle of an account with two homes, where calls can fail *)

\* what the hubs of the two homes report: a reading for every sensor
CyclePayloads == [CycleDids -> {Some(mk) : mk \in Readings}]
\* the login responses: refused, well-formed, without tokenExpired
CycleResponses ==
    { [code |-> 1, token |-> None, tokenExpired |-> None],
      LoginOk,
      [code |-> 0, token |-> Some(1), tokenExpired |-> None] }

\* what goes wrong in a cycle: the first exception ends the cycle, so one
\* vendor call fails, or one statement in the evaluation of one sensor, or
\* nothing
CycleFaults ==
    { [vf |-> v, fl |-> [d \in CycleDids |-> "no"]] : v \in VendorFailures }
    \cup { [vf |-> VendorCall("none", 0),
            fl |-> [d \in CycleDids |-> IF d = x THEN f ELSE "no"]] :
            x \in CycleDids, f \in Failures }

\* the scheduled poll cycle
PollCycle ==
    /\ Len(history) + Cardinality(CycleDids) <= MaxHistory
    /\ \E resp \in CycleResponses, ft \in CycleFaults, rd \in CyclePayloads :
         \E r \in {run(resp, CycleHomes, ft.vf, rd, ft.fl, now, cred, cache, db, history)} :
            /\ cred' = r.cred
            /\ sess' = r.sess
            /\ cache' = r.cache
            /\ db' = r.db
            /\ history' = r.history
            /\ evals' = r.evals
            /\ calls' = r.calls
    /\ applied' = None
    /\ UNCHANGED <<now, tree, listing, hubs, device_rows>>

\* a process that has never logged in; the devices are registered with the
\* default settings
InitCycle ==
    /\ now = 0
    /\ cache = [d \in CycleDids |-> None]
    /\ db = [d \in CycleDids |-> Some(RowOf(NewSensor(d)))]
    /\ history = <<>>
    /\ tree = [d \in Dids |-> None]
    /\ evals = <<>>
    /\ cred = NoCredential
    /\ sess = None
    /\ calls = <<>>
    /\ listing = <<>>
    /\ hubs = None
    /\ applied = None
    /\ device_rows = [d \in CycleDids |-> 1]

NextCycle ==
    \/ Tick
    \/ PollCycle

SpecCycle == InitCycle /\ [][NextCycle]_vars

-----------------------------------------------------------------------------
(* The device tree builder and the status dispatcher on their own *)

\* a caller of the API fetches the devices of the home
GetDevicesForHid ==
    /\ hubs' = Some(get_devices_for_hid(listing))
    /\ evals' = <<>> /\ sess' = None /\ calls' = <<>> /\ applied' = None
    /\ UNCHANGED <<now, cache, db, history, tree, cred, listing, device_rows>>

\* a caller of the API fetches the status of a hub of its tree
GetDeviceStatus ==
    /\ hubs # None
    /\ \E i \in DOMAIN Val(hubs), recs \in StatusPayloadsOf :
         \E hub \in {Val(hubs)[i]} : \E r \in {get_device_status(hub, recs)} :
            /\ hubs' = Some([Val(hubs) EXCEPT ![i] = r.hub])
            /\ applied' = Some([hub |-> hub, recs |-> recs, post |-> r.hub,
                                touched |-> r.touched, error |-> r.error])
    /\ evals' = <<>> /\ sess' = None /\ calls' = <<>>
    /\ UNCHANGED <<now, cache, db, history, tree, cred, listing, device_rows>>

\* a logged-in process and a home of which the vendor lists anything
InitTree ==
    /\ now = 0
    /\ cache = [d \in Dids |-> None]
    /\ db = [d \in Dids |-> None]
    /\ history = <<>>
    /\ tree = [d \in Dids |-> None]
    /\ evals = <<>>
    /\ cred = LoggedIn
    /\ sess = None
    /\ calls = <<>>
    /\ listing \in Listings
    /\ hubs = None
    /\ applied = None
    /\ device_rows = [d \in Dids |-> 0]

NextTree == GetDevicesForHid

SpecTree == InitTree /\ [][NextTree]_vars

\* a logged-in process and a home of which the vendor lists one hub
InitStatus ==
    /\ now = 0
    /\ cache = [d \in Dids |-> None]
    /\ db = [d \in Dids |-> None]
    /\ history = <<>>
    /\ tree = [d \in Dids |-> None]
    /\ evals = <<>>
    /\ cred = LoggedIn
    /\ sess = None
    /\ calls = <<>>
    /\ listing \in {<<a>> : a \in HubEntries}
    /\ hubs = None
    /\ applied = None
    /\ device_rows = [d \in Dids |-> 0]

NextStatus ==
    \/ GetDevicesForHid
    \/ GetDeviceStatus

SpecStatus == InitStatus /\ [][NextStatus]_vars

-----------------------------------------------------------------------------
(* Vocabulary of the properties: e is one observed is_max_temperature call *)

\* the six Alert State fields of a sensor object
AlertState(obj) ==
    [ alert_temp_max   |-> obj.alert_temp_max,
      alert_frequency  |-> obj.alert_frequency,
      alert_enabled    |-> obj.alert_enabled,
      alert_next_check |-> obj.alert_next_check,
      alert_last_check |-> obj.alert_last_check,
      alert_temp_curr  |-> obj.alert_temp_curr ]

HasReading(e) == e.pre.temp_mk_current # None
IsEnabled(e) == e.pre.alert_enabled = TRUE
ReadingMilliC(e) == Val(e.pre.temp_mk_current) - KelvinOffsetMilli
AtOrAbove(e) == HasReading(e) /\ ReadingMilliC(e) >= 1000 * e.pre.alert_temp_max
Below(e) == HasReading(e) /\ ReadingMilliC(e) < 1000 * e.pre.alert_temp_max
\* the instant the sensor's next_allowed_alert_at denotes
NextAllowed(e) == Val(e.pre.alert_next_check) * TicksPerSec
\* now + cooldown_hours, for the cooldown the evaluated sensor carries
Due(e) == e.at + e.pre.alert_frequency * HourTicks
Calls == {evals[i] : i \in DOMAIN evals}
NoStoreWrite(e) == e.cache_after = e.cache_before /\ e.row_after = e.row_before

-----------------------------------------------------------------------------
(* C1 *)

\* C1 (as claimed): exactly one fire per window. A poll cycle that evaluates
\* an enabled sensor at or above its threshold while the cooldown window
\* opened by an earlier firing is still running (the current time is before
\* the persisted next check) is suppressed, so the firing that opened the
\* window stays the only one.
C1_OneFirePerWindow ==
    \A e \in Calls :
        ( /\ e.via = "run"
          /\ IsEnabled(e)
          /\ AtOrAbove(e)
          /\ e.cache_before # None
          /\ e.at < Val(e.cache_before) * TicksPerSec )
        => e.outcome = "suppressed"

-----------------------------------------------------------------------------
(* C2 *)

\* C2 (as claimed): a call on a sensor whose enabled flag is false has
\* outcome none, writes neither cache nor durable store nor history, and
\* leaves all six Alert State fields of the sensor as they were.
C2_DisabledLeavesAlertState ==
    \A e \in Calls :
        (HasReading(e) /\ ~IsEnabled(e))
        => /\ e.outcome = "none"
           /\ NoStoreWrite(e)
           /\ e.logged = None
           /\ AlertState(e.post) = AlertState(e.pre)

-----------------------------------------------------------------------------
(* C3 *)

\* C3: for an enabled sensor, a reading strictly below the stored
\* threshold gives outcome none, and a reading equal to or above it gives
\* fired or suppressed, never none.
C3_InclusiveThreshold ==
    \A e \in Calls :
        (HasReading(e) /\ IsEnabled(e))
        => /\ Below(e) => e.outcome = "none"
           /\ AtOrAbove(e) => e.outcome \in {"fired", "suppressed"}

\* an enabled sensor read at exactly its threshold has fired
C3_Witness ==
    \E e \in Calls :
        /\ IsEnabled(e)
        /\ HasReading(e)
        /\ ReadingMilliC(e) = 1000 * e.pre.alert_temp_max
        /\ e.outcome = "fired"

-----------------------------------------------------------------------------
(* C4 *)

\* C4 (as claimed): while next_allowed_alert_at lies in the future, a call
\* with a reading at or above the threshold is suppressed and leaves the
\* sensor's Alert State, last_check_at and last_reading_celsius included,
\* as it was before the call.
C4_SuppressedIsIdempotent ==
    \A e \in Calls :
        ( /\ IsEnabled(e)
          /\ AtOrAbove(e)
          /\ e.pre.alert_next_check # None
          /\ e.at < NextAllowed(e) )
        => /\ e.outcome = "suppressed"
           /\ AlertState(e.post) = AlertState(e.pre)

-----------------------------------------------------------------------------
(* C5 *)

\* C5 (as claimed): the history row an evaluation appends has
\* alert_triggered = true exactly when the evaluation fired.
C5_TriggeredIffFired ==
    \A e \in Calls :
        e.logged # None
        => (Val(e.logged).alert_triggered <=> e.outcome = "fired")

-----------------------------------------------------------------------------
(* C6 *)

\* C6: after an evaluation that fires at time now, the persisted next check
\* is now + cooldown_hours for the cooldown of that evaluation, whatever
\* was stored before: the cache key holds that instant as a formatted
\* timestamp (whole seconds) and the device row, when there is one, holds
\* the instant itself.
C6_NextCheckIsNowPlusCooldown ==
    \A e \in Calls :
        e.outcome = "fired"
        => /\ e.cache_after = Some(Due(e) \div TicksPerSec)
           /\ e.row_before # None
              => /\ e.row_after # None
                 /\ Val(e.row_after).alert_next_check = Some(Due(e))

\* a firing that replaced an earlier, different next check in cache and row
C6_Witness ==
    \E e \in Calls :
        /\ e.outcome = "fired"
        /\ e.row_before # None
        /\ Val(e.row_before).alert_next_check # None
        /\ Val(e.row_before).alert_next_check # Some(Due(e))
        /\ e.cache_before # None
        /\ e.cache_before # e.cache_after

-----------------------------------------------------------------------------
(* C7 *)

\* C7 (as claimed): an evaluation at or above the threshold made at exactly
\* the instant next_allowed_alert_at is eligible: it is not suppressed.
C7_EligibleAtInstant ==
    \A e \in Calls :
        ( /\ IsEnabled(e)
          /\ AtOrAbove(e)
          /\ e.pre.alert_next_check # None
          /\ e.at = NextAllowed(e) )
        => e.outcome # "suppressed"

\* C7 (amended): an evaluation at or above the threshold made at exactly
\* the instant the sensor's next_allowed_alert_at denotes (the persisted
\* time as it is read back, in whole seconds) is still suppressed; the
\* sensor fires again only strictly after that instant.
C7_EligibleOnlyAfterInstant ==
    \A e \in Calls :
        ( /\ IsEnabled(e)
          /\ AtOrAbove(e)
          /\ e.pre.alert_next_check # None )
        => /\ e.at <= NextAllowed(e) => e.outcome = "suppressed"
           /\ e.at > NextAllowed(e) => e.outcome = "fired"

\* an evaluation at exactly the instant a firing persisted, suppressed
C7_Witness ==
    \E e \in Calls :
        /\ IsEnabled(e)
        /\ AtOrAbove(e)
        /\ e.pre.alert_next_check # None
        /\ e.row_before # None
        /\ Val(e.row_before).alert_next_check = Some(e.at)
        /\ e.at = NextAllowed(e)
        /\ e.outcome = "suppressed"

-----------------------------------------------------------------------------
(* C8 *)

\* position of the first occurrence of effect x in the call, 0 if absent
Position(e, x) ==
    IF \E i \in DOMAIN e.effects : e.effects[i] = x
    THEN CHOOSE i \in DOMAIN e.effects :
             /\ e.effects[i] = x
             /\ \A j \in DOMAIN e.effects : e.effects[j] = x => i <= j
    ELSE 0

\* C8 (as claimed): a firing evaluation writes both next_allowed_alert_at
\* and last_check_at to durable storage before the notification step.
C8_BothFieldsPersistedBeforeNotify ==
    \A e \in Calls :
        e.outcome = "fired"
        => /\ Position(e, "notify") > 0
           /\ Position(e, "db_next_check") > 0
           /\ Position(e, "db_next_check") < Position(e, "notify")
           /\ Position(e, "db_last_check") > 0
           /\ Position(e, "db_last_check") < Position(e, "notify")

-----------------------------------------------------------------------------
(* C9 *)

\* C9 (as claimed): a firing evaluation never replaces the persisted next
\* check by an earlier one, whatever the cooldown.
C9_NextCheckNeverDecreases ==
    \A e \in Calls :
        e.outcome = "fired"
        => /\ e.cache_before # None => Val(e.cache_after) >= Val(e.cache_before)
           /\ (e.row_before # None /\ Val(e.row_before).alert_next_check # None)
              => Val(Val(e.row_after).alert_next_check)
                     >= Val(Val(e.row_before).alert_next_check)

-----------------------------------------------------------------------------
(* C10 *)

\* C10 (as claimed): in a poll cycle the threshold and the cooldown the
\* evaluation uses are those of the device's row in the durable store, the
\* row being read, or inserted with the defaults when the device is new.
C10_SettingsComeFromStore ==
    \A e \in Calls :
        e.via = "run"
        => /\ e.row_after # None
           /\ e.pre.alert_temp_max = Val(e.row_after).alert_temp_max
           /\ e.pre.alert_frequency = Val(e.row_after).alert_frequency

-----------------------------------------------------------------------------
(* C11 *)

\* C11: an evaluation of an enabled sensor that ends none, suppressed or
\* fired appends exactly one row to table history, a row of that device,
\* and no evaluation changes or removes a row appended earlier.
C11_OneHistoryRowPerEvaluation ==
    \A e \in Calls :
        LET before == e.history_before
            after  == e.history_after
        IN /\ Len(after) >= Len(before)
           /\ \A i \in 1..Len(before) : after[i] = before[i]
           /\ (HasReading(e) /\ IsEnabled(e) /\ e.error = "no")
              => /\ Len(after) = Len(before) + 1
                 /\ after[Len(after)].did = e.did
                 /\ after[Len(after)].timestamp = e.at

\* a suppressed evaluation that appended a second row after a first one
C11_Witness ==
    \E e \in Calls :
        /\ IsEnabled(e)
        /\ e.outcome = "suppressed"
        /\ Len(e.history_before) = 1
        /\ Len(e.history_after) = 2
        /\ history = e.history_after

-----------------------------------------------------------------------------
(* C12 *)

\* the evaluation is strictly later than every earlier recorded one
StrictlyLater(e) ==
    \A i \in DOMAIN e.history_before :
        e.history_before[i].did = e.did => e.history_before[i].timestamp < e.at

\* C12 (as claimed): with a zero or negative cooldown an enabled sensor is
\* always eligible: every evaluation at or above the threshold made
\* strictly later than the earlier ones fires.
C12_AlwaysEligible ==
    \A e \in Calls :
        ( /\ IsEnabled(e)
          /\ AtOrAbove(e)
          /\ e.pre.alert_frequency <= 0
          /\ StrictlyLater(e) )
        => e.outcome = "fired"

\* C12 (amended): with a zero or negative cooldown an evaluation at or above
\* the threshold fires whenever next_allowed_alert_at is unset or already
\* past, and a firing leaves the persisted next check at or before the firing
\* time, so that the strictly later evaluations are eligible again; a
\* next_allowed_alert_at still in the future, left by an earlier positive
\* cooldown, suppresses as it does for any cooldown.
C12_NonPositiveCooldownOpensNoWindow ==
    \A e \in Calls :
        (IsEnabled(e) /\ AtOrAbove(e) /\ e.pre.alert_frequency <= 0)
        => /\ (e.pre.alert_next_check = None \/ NextAllowed(e) < e.at)
              => e.outcome = "fired"
           /\ e.outcome = "fired"
              => /\ Val(e.cache_after) * TicksPerSec <= e.at
                 /\ e.row_after # None
                    => Val(Val(e.row_after).alert_next_check) <= e.at

\* a sensor of negative cooldown fires again, strictly after its last firing
C12_Witness ==
    \E e \in Calls :
        /\ IsEnabled(e)
        /\ AtOrAbove(e)
        /\ e.pre.alert_frequency < 0
        /\ e.pre.alert_next_check # None
        /\ e.row_before # None
        /\ Val(Val(e.row_before).alert_next_check) < e.at
        /\ StrictlyLater(e)
        /\ e.history_before # <<>>
        /\ e.outcome = "fired"

-----------------------------------------------------------------------------
(* C13 *)

\* the session manager calls of the last operation
Sessions == {o \in sess : TRUE}
\* the cached token expires less than 60 minutes after the call
NearExpiry(o) ==
    o.pre.token_expires # None /\ Val(o.pre.token_expires) - o.at < HourTicks

\* C13 (as claimed): ensure_logged_in performs the login exchange if and only
\* if no credential is cached, or the cached e-mail differs from the
\* identity, or the cached token expires in less than 60 minutes; with a
\* matching e-mail and no cached expiry it performs the login exchange and
\* surfaces no error of its own.
C13_LoginIffAbsentMismatchedOrStale ==
    \A o \in Sessions :
        o.op = "ensure"
        => /\ o.exchanged <=> \/ o.pre = NoCredential
                              \/ o.pre.email # Some(o.email)
                              \/ o.pre.token_expires = None
                              \/ NearExpiry(o)
           /\ ~o.exchanged => o.error = "no"

-----------------------------------------------------------------------------
(* C14 *)

\* the credential a login at o.at with response o.resp issues
NewCredential(o) ==
    [ email |-> Some(o.email), token |-> Val(o.resp).token,
      token_expires |-> {o.at + x : x \in Val(o.resp).tokenExpired},
      refresh_token |-> Val(o.resp).token ]

\* C14 (as claimed): after login returns or raises, at whatever point, the
\* cached credential is entirely the previous one or entirely the new one.
C14_AtomicReplacement ==
    \A o \in Sessions :
        \/ o.post = o.pre
        \/ /\ o.resp # None
           /\ Val(o.resp).code = 0
           /\ Val(o.resp).tokenExpired # None
           /\ o.post = NewCredential(o)

-----------------------------------------------------------------------------
(* C15 *)

\* C15: when the login exchange that ensure_logged_in performs in a poll
\* cycle fails (the vendor refuses it, or its payload is malformed), the
\* cycle makes no authenticated vendor call and evaluates no sensor.
C15_NoVendorCallAfterFailedLogin ==
    \A o \in Sessions :
        (o.op = "ensure" /\ o.exchanged /\ o.error # "no")
        => calls = <<>> /\ evals = <<>>

\* a cycle whose re-login is refused while a token that is about to expire
\* is still cached
C15_Witness ==
    \E o \in Sessions :
        /\ o.op = "ensure"
        /\ o.exchanged
        /\ o.error = "auth"
        /\ o.pre.token # None
        /\ NearExpiry(o)
        /\ cred = o.pre
        /\ calls = <<>>

-----------------------------------------------------------------------------
(* C16 *)

\* the homes of which the cycle has fetched the devices
Processed == {calls[i].id : i \in {k \in DOMAIN calls : calls[k].call = "get_devices_for_hid"}}

\* C16 (as claimed): once get_homes has returned the homes, every home it
\* returned is processed in that cycle, whatever fails for another home.
C16_EveryHomeProcessed ==
    Len(calls) > 1 => \A j \in DOMAIN CycleHomes : CycleHomes[j] \in Processed

-----------------------------------------------------------------------------
(* C17 *)

\* C17 (as claimed): when the INSERT INTO history of one evaluation fails,
\* the cycle goes on: every sensor of every home is still evaluated.
C17_HistoryFailureTolerated ==
    \A e \in Calls :
        e.error = "history" => \A d \in CycleDids : \E e2 \in Calls : e2.did = d

-----------------------------------------------------------------------------
(* C18 *)

\* C18 (as claimed): after a firing evaluation has committed
\* next_allowed_alert_at and then failed (notification or history write), the
\* persisted value is still the firing time plus the cooldown, and the next
\* cycle's evaluation of that sensor at or above the threshold, at or before
\* that instant, is suppressed.
C18_CommittedWindowSuppressesNextCycle ==
    [][ \A e \in Calls :
          (e.outcome = "fired" /\ e.error \in {"notify", "history"})
          => /\ cache[e.did] = {Due(e) \div TicksPerSec}
             /\ \A e2 \in Calls' :
                  ( /\ e2.did = e.did
                    /\ IsEnabled(e2)
                    /\ AtOrAbove(e2)
                    /\ e2.at <= (Due(e) \div TicksPerSec) * TicksPerSec )
                  => e2.outcome = "suppressed" ]_vars

-----------------------------------------------------------------------------
(* C19 *)

\* a sub-device entry the tree keeps: not id 1, and of a mapped model code
Kept(e) == e.did # 1 /\ e.modelCode \in DOMAIN MODEL_CODE_MAPPING

\* C19: get_devices_for_hid returns one hub per hub entry of the listing, in
\* order, a hub of unmapped model code being a generic hub, and the children
\* of each hub are exactly the entry's sub-devices, in the reported order,
\* without those of id 1 and those of unmapped model code.
C19_TreeMirrorsListing ==
    \A t \in hubs :
        /\ Len(t) = Len(listing)
        /\ \A i \in DOMAIN listing :
             LET kept == SelectSeq(listing[i].subDevices, Kept)
             IN /\ t[i].model_code = listing[i].modelCode
                /\ t[i].class = IF listing[i].modelCode \in DOMAIN MODEL_CODE_MAPPING
                                THEN MODEL_CODE_MAPPING[listing[i].modelCode]
                                ELSE HomgarHubDevice
                /\ Len(t[i].subdevices) = Len(kept)
                /\ \A k \in DOMAIN kept :
                     /\ t[i].subdevices[k].did = kept[k].did
                     /\ t[i].subdevices[k].model_code = kept[k].modelCode
                     /\ t[i].subdevices[k].address = kept[k].addr
                     /\ t[i].subdevices[k].class = MODEL_CODE_MAPPING[kept[k].modelCode]

\* a tree of two hubs: a generic one that lost an entry of id 1 and mapped
\* model code, and one that lost an entry of unmapped model code, each
\* keeping one child
C19_Witness ==
    \E t \in hubs : \E i, j \in DOMAIN listing :
        /\ i # j
        /\ listing[i].modelCode \notin DOMAIN MODEL_CODE_MAPPING
        /\ t[i].class = HomgarHubDevice
        /\ \E k \in DOMAIN listing[i].subDevices :
             /\ listing[i].subDevices[k].did = 1
             /\ listing[i].subDevices[k].modelCode \in DOMAIN MODEL_CODE_MAPPING
        /\ Len(listing[i].subDevices) = 2
        /\ Len(t[i].subdevices) = 1
        /\ \E k \in DOMAIN listing[j].subDevices :
             /\ listing[j].subDevices[k].did # 1
             /\ listing[j].subDevices[k].modelCode \notin DOMAIN MODEL_CODE_MAPPING
        /\ Len(listing[j].subDevices) = 2
        /\ Len(t[j].subdevices) = 1

-----------------------------------------------------------------------------
(* C20 *)

\* C20 (as claimed): a status record whose id no device of the hub's tree
\* answers to changes no device; a record whose id is one of the hub's own
\* status ids is applied to the hub and to no child, even when a child
\* answers to that id too; every other record is applied to one device that
\* answers to its id.
C20_RecordGoesToItsOwner ==
    \A a \in applied :
        /\ \A k \in DOMAIN a.touched :
             LET ans == Answering(a.hub, Val(a.recs[k].id))
             IN /\ ans = {} => a.touched[k] = None
                /\ 0 \in ans => a.touched[k] = {0}
                /\ (ans # {} /\ 0 \notin ans)
                   => a.touched[k] # None /\ a.touched[k] \subseteq ans
        /\ (\A k \in DOMAIN a.touched : a.touched[k] = None) => a.post = a.hub
        /\ \A k \in DOMAIN a.hub.subdevices :
             (\A r \in DOMAIN a.touched : a.touched[r] # {k})
             => a.post.subdevices[k] = a.hub.subdevices[k]

-----------------------------------------------------------------------------
(* C21 *)

\* record k of the payload carries an id that a device of the hub answers to
WellFormedAndOwned(a, k) ==
    a.recs[k].id # None /\ Answering(a.hub, Val(a.recs[k].id)) # {}

\* C21 (as claimed): a status record without an id is skipped: the call
\* does not raise, and every well-formed record of the payload, before or
\* after the malformed one, is applied to a device that answers to its id.
C21_MalformedRecordSkipped ==
    \A a \in applied :
        /\ a.error = "no"
        /\ \A k \in DOMAIN a.recs :
             WellFormedAndOwned(a, k)
             => /\ k \in DOMAIN a.touched
                /\ a.touched[k] # None
                /\ a.touched[k] \subseteq Answering(a.hub, Val(a.recs[k].id))

-----------------------------------------------------------------------------
(* C22 *)

\* C22: every authenticated request carries the token that is in the
\* credential cache when the request is issued, so that after a login that
\* succeeded between two requests the later request sends the new token.
C22_RequestCarriesCachedToken ==
    [][ Len(calls') > Len(calls)
        => \A i \in (DOMAIN calls') \ (DOMAIN calls) : calls'[i].auth = cred.token ]_vars

\* two authenticated requests with a successful login between them: the
\* first carried the token of before, the second the new one
C22_Witness ==
    /\ Len(calls) = 2
    /\ calls[1].auth # None
    /\ calls[2].auth # None
    /\ calls[1].auth # calls[2].auth
    /\ calls[2].auth = cred.token
    /\ sess = None

-----------------------------------------------------------------------------
(* C23 *)

\* the three persisted settings of a device row
StoredSettings(row) == <<row.alert_temp_max, row.alert_frequency, row.alert_enabled>>

\* C23: a step of the engine (init_sensor, is_max_temperature in any of its
\* outcomes, a whole cycle), that is every step but the operator's edit,
\* keeps each existing device row with the alert_temp_max, alert_frequency
\* and alert_enabled it had, adds no second row for a device that has one,
\* and leaves each device with at most one row: the row the table shows.
C23_EngineKeepsStoredSettings ==
    [][ \/ \A d \in Dids :
             /\ device_rows'[d] <= 1
             /\ (db'[d] # None) <=> (device_rows'[d] = 1)
             /\ db[d] # None
                => /\ db'[d] # None
                   /\ StoredSettings(Val(db'[d])) = StoredSettings(Val(db[d]))
                   /\ device_rows'[d] = device_rows[d]
        \/ Configure ]_vars

\* an alert fired for a sensor whose row had been edited by the operator
\* and loaded by a later init_sensor: the row keeps the edited settings,
\* has a new alert_next_check, and is still the device's only row
C23_Witness ==
    \E e \in Calls :
        /\ e.outcome = "fired"
        /\ e.row_before # None
        /\ StoredSettings(Val(e.row_before)) # <<DefaultTempMax, DefaultFrequency, DefaultEnabled>>
        /\ StoredSettings(e.pre) = StoredSettings(Val(e.row_before))
        /\ e.row_after # None
        /\ StoredSettings(Val(e.row_after)) = StoredSettings(Val(e.row_before))
        /\ Val(e.row_after).alert_next_check # Val(e.row_before).alert_next_check
        /\ db[e.did] = e.row_after
        /\ device_rows[e.did] = 1

====
